---- MODULE Spec2Model ----
(***************************************************************************)
(* FindMyRepo API: the /search, /allrepos and /hiddengem handlers of       *)
(* main.py with the two services they call (GeminiService,                 *)
(* WeaviateService).  One request is handled at a time; each action is one *)
(* stretch of a handler between two calls to an external collaborator      *)
(* (generation model, sandboxed exec, backend count, backend fetch).       *)
(***************************************************************************)
EXTENDS Integers, Sequences, FiniteSets, TLC

VARIABLES
    pc,        \* where the handler of the request in progress stands
    req,       \* the request in progress
    calls,     \* the calls it has made to its collaborators, in order
    rets,      \* what the collaborators answered, in order
    code,      \* generated_code of search_repositories
    loc,       \* the locals of the browse handlers
    resp,      \* what the handler returned or raised
    matching,  \* the backend: how many records match the predicate of the
               \* browse request in progress (0 while there is none)
    sandboxes  \* execute_search_code under simultaneous calls: the frame of
               \* each call and the exec_globals dictionaries on the heap

handler == <<pc, req, calls, rets, code, loc, resp, matching>>

vars == <<pc, req, calls, rets, code, loc, resp, matching, sandboxes>>

(***************************************************************************)
(* Bounds of the model.                                                    *)
(***************************************************************************)
MaxPage == 3
MaxTotal == 4
MaxText == 3
MaxObjs == 2
MaxPresent == 2
NumCalls == 2
MaxFields == 2
MaxSource == 3
MaxSnippet == 5

(***************************************************************************)
(* Python values.  Every value carries its type tag; a str is a tuple of   *)
(* characters, a list a tuple of values.                                   *)
(***************************************************************************)
PyNone == [t |-> "none"]
PyStr(s) == [t |-> "str", v |-> s]
PyInt(n) == [t |-> "int", v |-> n]
PyBool(b) == [t |-> "bool", v |-> b]
PyList(l) == [t |-> "list", v |-> l]
\* a float, in units of 10^-5
PyFloat(n) == [t |-> "float", v |-> n]

\* bool(x) of Python, as used by 'if x:' and 'x or d'
Truthy(x) ==
    CASE x.t = "none" -> FALSE
      [] x.t = "str" -> x.v # <<>>
      [] x.t = "list" -> x.v # <<>>
      [] x.t = "int" -> x.v # 0
      [] x.t = "bool" -> x.v
      [] x.t = "float" -> x.v # 0
      [] OTHER -> TRUE

GetOrNone(d, key, default) == IF key \in DOMAIN d THEN d[key] ELSE PyNone

\* dict.get(key, default)
Get(d, key, default) == IF key \in DOMAIN d THEN d[key] ELSE default

(***************************************************************************)
(* str methods, on tuples of characters.                                   *)
(***************************************************************************)
LowerChar(c) ==
    CASE c = "A" -> "a"
      [] c = "B" -> "b"
      [] OTHER -> c

Lower(s) == [i \in 1..Len(s) |-> LowerChar(s[i])]

IsSpace(c) == c = " "

RECURSIVE LStrip(_)
LStrip(s) == IF s # <<>> /\ IsSpace(Head(s)) THEN LStrip(Tail(s)) ELSE s

RECURSIVE RStrip(_)
RStrip(s) ==
    IF s # <<>> /\ IsSpace(s[Len(s)]) THEN RStrip(SubSeq(s, 1, Len(s) - 1)) ELSE s

Strip(s) == RStrip(LStrip(s))

\* s.split(','): "" gives [""], "a," gives ["a", ""]
RECURSIVE Split(_)
Split(s) ==
    LET commas == {i \in 1..Len(s) : s[i] = ","}
    IN  IF commas = {}
        THEN <<s>>
        ELSE LET i == CHOOSE j \in commas : \A k \in commas : j <= k
             IN  <<SubSeq(s, 1, i - 1)>> \o Split(SubSeq(s, i + 1, Len(s)))

StartsWith(s, p) == Len(s) >= Len(p) /\ SubSeq(s, 1, Len(p)) = p

EndsWith(s, p) == Len(s) >= Len(p) /\ SubSeq(s, Len(s) - Len(p) + 1, Len(s)) = p

(***************************************************************************)
(* GeminiService.generate_weaviate_code: the post-processing of the raw    *)
(* response text.  A response text is a tuple of tokens: the fence of     *)
(* three backquotes, the tag python of six characters, a blank and any     *)
(* other character x; the slices 9:, 3: and :-3 of the code then drop two  *)
(* tokens, one token and the last token.                                   *)
(***************************************************************************)
Fence == "FENCE"
PyTag == "python"
GenAlphabet == {Fence, PyTag, " ", "x"}

\* the leading marker taken without its language tag
StripFencesBare(text) ==
    LET s0 == Strip(text)
        s1 == IF StartsWith(s0, <<Fence>>) THEN SubSeq(s0, 2, Len(s0)) ELSE s0
        s2 == IF EndsWith(s1, <<Fence>>) THEN SubSeq(s1, 1, Len(s1) - 1) ELSE s1
    IN  Strip(s2)

StripFences(text) ==
    LET s0 == Strip(text)
        s1 == IF StartsWith(s0, <<Fence, PyTag>>) THEN SubSeq(s0, 3, Len(s0))
              ELSE IF StartsWith(s0, <<Fence>>) THEN SubSeq(s0, 2, Len(s0))
              ELSE s0
        s2 == IF EndsWith(s1, <<Fence>>) THEN SubSeq(s1, 1, Len(s1) - 1) ELSE s1
    IN  Strip(s2)

(***************************************************************************)
(* The Repository model of main.py and the result formatting of            *)
(* WeaviateService.execute_search_code.                                    *)
(***************************************************************************)
StrFields == {"name", "full_name", "description", "url", "language",
              "created_at", "updated_at"}
OptStrFields == {"homepage", "license"}
IntFields == {"stars", "forks", "open_issues"}
BoolFields == {"has_issues", "has_wiki"}
ListFields == {"languages", "topics"}
OptFloatFields == {"distance", "score"}

\* [tok.strip() for tok in s.split(',') if tok.strip()]
NonEmpty(s) == s # <<>>

TokensKeepEmpty(s) ==
    LET parts == Split(s)
    IN  [i \in 1..Len(parts) |-> Strip(parts[i])]

Tokens(s) ==
    LET parts == Split(s)
        stripped == [i \in 1..Len(parts) |-> Strip(parts[i])]
    IN  SelectSeq(stripped, NonEmpty)

\* topics = []; if props.get(key): topics = [... props[key].split(',') ...]
\* (str.split exists on a str only: any other truthy value raises)
SplitFieldRaises(props, key) ==
    LET x == Get(props, key, PyNone) IN Truthy(x) /\ x.t # "str"

SplitField(props, key) ==
    LET x == Get(props, key, PyNone)
    IN  IF Truthy(x)
        THEN PyList([i \in 1..Len(Tokens(x.v)) |-> PyStr(Tokens(x.v)[i])])
        ELSE PyList(<<>>)

\* round(x, 4) of a float given in units of 10^-5
Round4(n) ==
    LET q == n \div 10
        r == n % 10
    IN  IF r < 5 THEN 10 * q
        ELSE IF r > 5 THEN 10 * (q + 1)
        ELSE IF q % 2 = 0 THEN 10 * q ELSE 10 * (q + 1)

\* hasattr(obj.metadata, k) and obj.metadata.k is not None
HasMeta(obj, k) == k \in DOMAIN obj.metadata /\ obj.metadata[k] # PyNone

SearchMetadataBoth(obj) ==
    (IF HasMeta(obj, "distance")
     THEN [distance |-> PyFloat(Round4(obj.metadata["distance"].v))]
     ELSE <<>>)
    @@ (IF HasMeta(obj, "score")
        THEN [score |-> PyFloat(Round4(obj.metadata["score"].v))]
        ELSE <<>>)

SearchMetadata(obj) ==
    IF HasMeta(obj, "distance")
    THEN [distance |-> PyFloat(Round4(obj.metadata["distance"].v))]
    ELSE IF HasMeta(obj, "score")
    THEN [score |-> PyFloat(Round4(obj.metadata["score"].v))]
    ELSE <<>>

\* one result_item of execute_search_code
FormatSearchResult(obj) ==
    LET props == obj.properties
    IN  [name |-> Get(props, "name", PyStr(<<>>)),
         full_name |-> Get(props, "full_name", PyStr(<<>>)),
         description |-> Get(props, "description", PyStr(<<>>)),
         url |-> Get(props, "url", PyStr(<<>>)),
         homepage |-> Get(props, "homepage", PyStr(<<>>)),
         language |-> Get(props, "language", PyStr(<<>>)),
         languages |-> SplitField(props, "languages"),
         topics |-> SplitField(props, "topics"),
         stars |-> Get(props, "stars", PyInt(0)),
         forks |-> Get(props, "forks", PyInt(0)),
         open_issues |-> Get(props, "open_issues", PyInt(0)),
         license |-> Get(props, "license", PyStr(<<>>)),
         has_issues |-> Get(props, "has_issues", PyBool(FALSE)),
         has_wiki |-> Get(props, "has_wiki", PyBool(FALSE)),
         created_at |-> Get(props, "created_at", PyStr(<<>>)),
         updated_at |-> Get(props, "updated_at", PyStr(<<>>))]
        @@ SearchMetadata(obj)

\* pydantic's validation of Repository(**item)
RepositoryValid(item) ==
    /\ \A f \in StrFields : Get(item, f, PyStr(<<>>)).t = "str"
    /\ \A f \in OptStrFields : Get(item, f, PyStr(<<>>)).t \in {"str", "none"}
    /\ \A f \in IntFields : Get(item, f, PyInt(0)).t = "int"
    /\ \A f \in BoolFields : Get(item, f, PyBool(FALSE)).t = "bool"
    /\ \A f \in ListFields : Get(item, f, PyList(<<>>)).t = "list"
    /\ \A f \in OptFloatFields : Get(item, f, PyNone).t \in {"float", "none"}

\* Repository(**item): the fields given, the others at their defaults
Repository(item) ==
    item @@ [name |-> PyStr(<<>>), full_name |-> PyStr(<<>>),
             description |-> PyStr(<<>>), url |-> PyStr(<<>>),
             homepage |-> PyStr(<<>>), language |-> PyStr(<<>>),
             languages |-> PyList(<<>>), topics |-> PyList(<<>>),
             stars |-> PyInt(0), forks |-> PyInt(0), open_issues |-> PyInt(0),
             license |-> PyStr(<<>>), has_issues |-> PyBool(FALSE),
             has_wiki |-> PyBool(FALSE), created_at |-> PyStr(<<>>),
             updated_at |-> PyStr(<<>>), distance |-> PyNone, score |-> PyNone]

(***************************************************************************)
(* Responses.  A handler either returns a response model or raises an      *)
(* HTTPException, which the framework turns into an error status.          *)
(***************************************************************************)
NoResp == [kind |-> "none"]
Returned(body) == [kind |-> "returned", body |-> body]
Raised(status, detail) == [kind |-> "raised", status |-> status, detail |-> detail]

(***************************************************************************)
(* WeaviateService.execute_search_code and WeaviateService.search.  What   *)
(* exec does with the snippet is the snippet's business: it raises, or it  *)
(* ends and leaves some value in the 'results' slot, which starts as None. *)
(***************************************************************************)
RawA ==
    [properties |-> [name |-> PyStr(<<"a">>),
                     topics |-> PyStr(<<"a", ",", " ", "B", ",">>),
                     stars |-> PyInt(5),
                     has_issues |-> PyBool(TRUE)],
     metadata |-> [distance |-> PyFloat(12346), score |-> PyNone]]

RawB ==
    [properties |-> [name |-> PyStr(<<"b">>),
                     languages |-> PyStr(<<",">>),
                     license |-> PyNone],
     metadata |-> [distance |-> PyNone, score |-> PyFloat(99995)]]

RawNull ==
    [properties |-> [name |-> PyNone, stars |-> PyNone],
     metadata |-> [distance |-> PyFloat(7), score |-> PyFloat(8)]]

\* a record whose topics are no string
RawList ==
    [properties |-> [name |-> PyStr(<<"a">>),
                     topics |-> PyList(<<PyStr(<<"a">>)>>)],
     metadata |-> [distance |-> PyNone, score |-> PyNone]]

RawPool == {RawA, RawB, RawNull, RawList}

\* the values a property of a backend record can hold: null, or a falsy or
\* a truthy value of its type
PropertyNames == StrFields \cup OptStrFields \cup IntFields \cup BoolFields
                     \cup ListFields

PropertyValues(k) ==
    IF k \in IntFields THEN {PyNone, PyInt(0), PyInt(5)}
    ELSE IF k \in BoolFields THEN {PyNone, PyBool(FALSE), PyBool(TRUE)}
    ELSE IF k \in ListFields THEN {PyNone, PyStr(<<>>), PyStr(<<" ", "a", ",">>)}
    ELSE {PyNone, PyStr(<<>>), PyStr(<<"a">>)}

RECURSIVE Bags(_)
Bags(S) ==
    IF S = {} THEN {<<>>}
    ELSE LET k == CHOOSE x \in S : TRUE
         IN  {(k :> v) @@ b : v \in PropertyValues(k), b \in Bags(S \ {k})}

RECURSIVE SeqsUpTo(_, _)
SeqsUpTo(S, n) ==
    IF n = 0 THEN {<<>>}
    ELSE LET shorter == SeqsUpTo(S, n - 1)
         IN  shorter \cup {Append(q, x) : q \in shorter, x \in S}

\* the texts a delimited-string property can hold
SourceTexts == SeqsUpTo({"a", ",", " "}, MaxSource)

\* property bags: any MaxFields properties at most, or one delimited-string
\* property with any text
PropertyBags ==
    UNION {Bags(S) : S \in {T \in SUBSET PropertyNames :
                                  Cardinality(T) <= MaxFields}}
    \cup {(k :> PyStr(txt)) : k \in ListFields, txt \in SourceTexts}

\* the match metadata of a near_vector, bm25 or hybrid query, or none
Metadatas ==
    {<<>>} \cup [distance : {PyNone, PyFloat(12346)},
                 score : {PyNone, PyFloat(99995)}]

NoMetadata == [distance |-> PyNone, score |-> PyNone]

QueryReturn(objs) == [t |-> "query_return", objects |-> objs]

\* a snippet sets the limit of its own query: here one record more than
\* the largest limit a search request can carry
ManyObjects == [i \in 1..51 |-> IF i = 1 THEN RawB ELSE RawA]

SlotValues ==
    {PyNone, PyList(<<>>), PyStr(<<"x">>), QueryReturn(ManyObjects)}
        \cup {QueryReturn(objs) : objs \in SeqsUpTo(RawPool, MaxObjs)}

\* exec(generated_code, exec_globals): an empty snippet is a no-op
ExecOutcomes(generated_code) ==
    IF generated_code = <<>>
    THEN {[raised |-> FALSE, slot |-> PyNone]}
    ELSE {[raised |-> TRUE, slot |-> PyNone]}
             \cup {[raised |-> FALSE, slot |-> v] : v \in SlotValues}

HasObjects(x) == x.t = "query_return"

ExecuteSearchCodeStrict(outcome) ==
    IF outcome.raised \/ ~Truthy(outcome.slot) \/ ~HasObjects(outcome.slot)
    THEN [raised |-> TRUE, results |-> <<>>]
    ELSE [raised |-> FALSE,
          results |-> [i \in 1..Len(outcome.slot.objects) |->
                          FormatSearchResult(outcome.slot.objects[i])]]

ExecuteSearchCode(outcome) ==
    IF outcome.raised
    THEN [raised |-> TRUE, results |-> <<>>]
    ELSE LET results == outcome.slot
         IN  IF ~Truthy(results) \/ ~HasObjects(results)
             THEN [raised |-> FALSE, results |-> <<>>]
             ELSE IF \E i \in 1..Len(results.objects) :
                        \/ SplitFieldRaises(results.objects[i].properties, "topics")
                        \/ SplitFieldRaises(results.objects[i].properties, "languages")
             THEN [raised |-> TRUE, results |-> <<>>]
             ELSE [raised |-> FALSE,
                   results |-> [i \in 1..Len(results.objects) |->
                                   FormatSearchResult(results.objects[i])]]

WeaviateSearchReraises(query, generated_code, outcome) ==
    LET r == ExecuteSearchCode(outcome)
    IN  IF r.raised
        THEN [raised |-> TRUE]
        ELSE [raised |-> FALSE, success |-> TRUE, query |-> query,
              results_count |-> Len(r.results), results |-> r.results,
              generated_code |-> generated_code]

WeaviateSearch(query, generated_code, outcome) ==
    LET r == ExecuteSearchCode(outcome)
    IN  IF r.raised
        THEN [raised |-> FALSE, success |-> FALSE, query |-> query,
              error |-> "exec error", results_count |-> 0, results |-> <<>>,
              generated_code |-> generated_code]
        ELSE [raised |-> FALSE, success |-> TRUE, query |-> query,
              results_count |-> Len(r.results), results |-> r.results,
              generated_code |-> generated_code]

(***************************************************************************)
(* POST /search: SearchRequest and search_repositories.                    *)
(***************************************************************************)
MinQueryLen == 1
MaxSearchLimit == 50
DefaultSearchLimit == 10

Queries == {<<>>, <<"A", " ", "b">>}

\* the limit of a request body: absent, null or an integer
Absent == [t |-> "absent"]

BodyLimits ==
    {Absent, PyNone}
        \cup {PyInt(n) : n \in {0, 1, MaxSearchLimit, MaxSearchLimit + 1}}

SearchBodies == [query : Queries, limit : BodyLimits]

\* pydantic's validation of the body against SearchRequest
SearchRequestValid(body) ==
    /\ Len(body.query) >= MinQueryLen
    /\ \/ body.limit = Absent
       \/ body.limit = PyNone
       \/ body.limit.v >= 1 /\ body.limit.v <= MaxSearchLimit

SearchRequest(body) ==
    [kind |-> "search",
     query |-> body.query,
     limit |-> IF body.limit = Absent THEN PyInt(DefaultSearchLimit) ELSE body.limit]

GenerateCall(request) == [op |-> "generate", query |-> request.query]

ExecCall(request, generated_code) ==
    [op |-> "exec", query |-> request.query, code |-> generated_code]

\* what the generation collaborator does: it fails, or it answers with a
\* response whose text is None or a string
GenOutcomes ==
    {[raised |-> TRUE, text |-> PyNone], [raised |-> FALSE, text |-> PyNone]}
        \cup {[raised |-> FALSE, text |-> PyStr(txt)] :
                 txt \in SeqsUpTo(GenAlphabet, MaxText)}

\* generate_weaviate_code raises when the call fails or response.text is None
GenerateRaises(gen) == gen.raised \/ gen.text = PyNone

\* Step 1 of search_repositories, from the return of the generation call
SearchAfterGenerateRetry(request, cs, gen) ==
    IF GenerateRaises(gen)
    THEN IF Len(cs) < 2
         THEN [pc |-> "generate", calls |-> Append(cs, GenerateCall(request)),
               code |-> <<>>, resp |-> NoResp]
         ELSE [pc |-> "done", calls |-> cs, code |-> <<>>,
               resp |-> Raised(500, "Failed to generate search code")]
    ELSE LET generated_code == StripFences(gen.text.v)
         IN  [pc |-> "exec", calls |-> Append(cs, ExecCall(request, generated_code)),
              code |-> generated_code, resp |-> NoResp]

SearchAfterGenerateRejectEmpty(request, cs, gen) ==
    IF GenerateRaises(gen) \/ StripFences(gen.text.v) = <<>>
    THEN [pc |-> "done", calls |-> cs, code |-> <<>>,
          resp |-> Raised(500, "Failed to generate search code")]
    ELSE LET generated_code == StripFences(gen.text.v)
         IN  [pc |-> "exec", calls |-> Append(cs, ExecCall(request, generated_code)),
              code |-> generated_code, resp |-> NoResp]

SearchAfterGenerateReturnsFailure(request, cs, gen) ==
    IF GenerateRaises(gen)
    THEN [pc |-> "done", calls |-> cs, code |-> <<>>,
          resp |-> Returned([success |-> FALSE, query |-> request.query,
                             results_count |-> 0, results |-> <<>>,
                             error |-> PyStr("Failed to generate search code"),
                             generated_code |-> PyNone])]
    ELSE LET generated_code == StripFences(gen.text.v)
         IN  [pc |-> "exec", calls |-> Append(cs, ExecCall(request, generated_code)),
              code |-> generated_code, resp |-> NoResp]

SearchAfterGenerate(request, cs, gen) ==
    IF GenerateRaises(gen)
    THEN [pc |-> "done", calls |-> cs, code |-> <<>>,
          resp |-> Raised(500, "Failed to generate search code")]
    ELSE LET generated_code == StripFences(gen.text.v)
         IN  [pc |-> "exec", calls |-> Append(cs, ExecCall(request, generated_code)),
              code |-> generated_code, resp |-> NoResp]

ApplyLimitNever(results, limit) == results

\* results[:limit] when 'request.limit and len(results) > request.limit'
ApplyLimit(results, limit) ==
    IF Truthy(limit) /\ Len(results) > limit.v
    THEN SubSeq(results, 1, limit.v)
    ELSE results

\* Steps 2 and 3 of search_repositories, from the return of the sandbox
SearchRespond(request, search_results) ==
    IF search_results.raised
    THEN Raised(500, "Failed to execute search")
    ELSE IF ~search_results.success
    THEN Returned([success |-> FALSE, query |-> request.query,
                   results_count |-> 0, results |-> <<>>,
                   error |-> PyStr(search_results.error),
                   generated_code |-> PyStr(search_results.generated_code)])
    ELSE LET results == ApplyLimit(search_results.results, request.limit)
         IN  IF \E i \in 1..Len(results) : ~RepositoryValid(results[i])
             THEN Raised(500, "Internal server error")
             ELSE Returned([success |-> TRUE, query |-> request.query,
                            results_count |-> Len(results),
                            results |-> [i \in 1..Len(results) |->
                                            Repository(results[i])],
                            error |-> PyNone,
                            generated_code |->
                                PyStr(search_results.generated_code)])

\* a failure of the sandbox ends the process instead of the request
SearchAfterExecExits(request, cs, generated_code, outcome) ==
    IF outcome.raised
    THEN [pc |-> "exited", calls |-> cs, code |-> generated_code, resp |-> NoResp]
    ELSE [pc |-> "done", calls |-> cs, code |-> generated_code,
          resp |-> SearchRespond(request,
                       WeaviateSearch(request.query, generated_code, outcome))]

SearchAfterExec(request, cs, generated_code, outcome) ==
    [pc |-> "done", calls |-> cs, code |-> generated_code,
     resp |-> SearchRespond(request,
                  WeaviateSearch(request.query, generated_code, outcome))]

(***************************************************************************)
(* GET /allrepos: the filter parameters, the filters_applied dictionary    *)
(* and the filter conditions of get_all_repositories.                      *)
(***************************************************************************)
FilterNames ==
    {"language", "languages", "topics", "min_stars", "max_stars", "min_forks",
     "max_forks", "license", "has_issues", "has_wiki", "is_underrated",
     "is_gsoc", "is_hacktoberfest", "has_good_first_issues", "name_contains",
     "description_contains"}

NoFilters == [f \in FilterNames |-> PyNone]

FilterSamples ==
    {NoFilters,
     [language |-> PyStr(<<"A", "b">>), min_stars |-> PyInt(4)] @@ NoFilters,
     [language |-> PyStr(<<>>), has_issues |-> PyBool(FALSE)] @@ NoFilters,
     [languages |-> PyStr(<<"A", ",", " ", "b">>),
      is_underrated |-> PyBool(FALSE)] @@ NoFilters,
     [topics |-> PyStr(<<",">>), max_forks |-> PyInt(0)] @@ NoFilters,
     [name_contains |-> PyStr(<<"A">>), license |-> PyStr(<<"B">>),
      has_wiki |-> PyBool(TRUE)] @@ NoFilters,
     [min_forks |-> PyInt(-1)] @@ NoFilters}

\* the values a filter parameter of /allrepos can be given: a str parameter
\* any text (the empty one included), a ge=0 int parameter a natural number,
\* a bool parameter either value
StrParams == {"language", "license", "name_contains", "description_contains"}
ListParams == {"languages", "topics"}
IntParams == {"min_stars", "max_stars", "min_forks", "max_forks"}
BoolParams == FilterNames \ (StrParams \cup ListParams \cup IntParams)

ParamValues(k) ==
    IF k \in StrParams THEN {PyStr(<<>>), PyStr(<<"A", "b">>)}
    ELSE IF k \in ListParams
    THEN {PyStr(<<>>), PyStr(<<",">>), PyStr(<<"A", ",", " ", "b">>)}
    ELSE IF k \in IntParams THEN {PyInt(0), PyInt(4)}
    ELSE {PyBool(TRUE), PyBool(FALSE)}

RECURSIVE Assignments(_)
Assignments(S) ==
    IF S = {} THEN {<<>>}
    ELSE LET k == CHOOSE x \in S : TRUE
         IN  {(k :> v) @@ g : v \in ParamValues(k), g \in Assignments(S \ {k})}

\* every query string that gives at most MaxPresent filter parameters
FilterSets ==
    UNION {{g @@ NoFilters : g \in Assignments(S)} :
              S \in {T \in SUBSET FilterNames : Cardinality(T) <= MaxPresent}}

\* [x.strip().lower() for x in s.split(',')] if s else None
ParseList(x) ==
    IF Truthy(x)
    THEN PyList([i \in 1..Len(Split(x.v)) |-> PyStr(Lower(Strip(Split(x.v)[i])))])
    ELSE PyNone

\* 'if value:' where the code has 'if value is not None:'
EntryIfTruthy(cond, key, val) == IF cond /\ Truthy(val) THEN key :> val ELSE <<>>

Entry(cond, key, val) == IF cond THEN key :> val ELSE <<>>

FiltersApplied(f) ==
    Entry(Truthy(f.language), "language", PyStr(Lower(f.language.v)))
    @@ Entry(Truthy(ParseList(f.languages)), "languages", ParseList(f.languages))
    @@ Entry(Truthy(ParseList(f.topics)), "topics", ParseList(f.topics))
    @@ Entry(f.min_stars # PyNone, "min_stars", f.min_stars)
    @@ Entry(f.max_stars # PyNone, "max_stars", f.max_stars)
    @@ Entry(f.min_forks # PyNone, "min_forks", f.min_forks)
    @@ Entry(f.max_forks # PyNone, "max_forks", f.max_forks)
    @@ Entry(Truthy(f.license), "license", f.license)
    @@ Entry(f.has_issues # PyNone, "has_issues", f.has_issues)
    @@ Entry(f.has_wiki # PyNone, "has_wiki", f.has_wiki)
    @@ Entry(f.is_underrated # PyNone, "is_underrated", f.is_underrated)
    @@ Entry(f.is_gsoc # PyNone, "is_gsoc", f.is_gsoc)
    @@ Entry(f.is_hacktoberfest # PyNone, "is_hacktoberfest", f.is_hacktoberfest)
    @@ Entry(f.has_good_first_issues # PyNone, "has_good_first_issues",
             f.has_good_first_issues)
    @@ Entry(Truthy(f.name_contains), "name_contains", f.name_contains)
    @@ Entry(Truthy(f.description_contains), "description_contains",
             f.description_contains)

\* Filter.by_property(prop).op(val)
Atom(prop, op, val) == [t |-> "value", prop |-> prop, op |-> op, val |-> val]

Cond(cond, atom) == IF cond THEN <<atom>> ELSE <<>>

LikePatternAsGiven(x) == PyStr(<<"*">> \o x.v \o <<"*">>)

\* f"*{text.lower()}*"
LikePattern(x) == PyStr(<<"*">> \o Lower(x.v) \o <<"*">>)

FilterConditions(f) ==
    Cond(Truthy(f.language), Atom("language", "equal", PyStr(Lower(f.language.v))))
    \o Cond(Truthy(ParseList(f.languages)),
            Atom("languages", "contains_any", ParseList(f.languages)))
    \o Cond(Truthy(ParseList(f.topics)),
            Atom("topics", "contains_any", ParseList(f.topics)))
    \o Cond(f.min_stars # PyNone, Atom("stars", "greater_or_equal", f.min_stars))
    \o Cond(f.max_stars # PyNone, Atom("stars", "less_or_equal", f.max_stars))
    \o Cond(f.min_forks # PyNone, Atom("forks", "greater_or_equal", f.min_forks))
    \o Cond(f.max_forks # PyNone, Atom("forks", "less_or_equal", f.max_forks))
    \o Cond(Truthy(f.license), Atom("license", "equal", f.license))
    \o Cond(f.has_issues # PyNone, Atom("has_issues", "equal", f.has_issues))
    \o Cond(f.has_wiki # PyNone, Atom("has_wiki", "equal", f.has_wiki))
    \o Cond(f.is_underrated # PyNone,
            Atom("is_underrated", "equal", f.is_underrated))
    \o Cond(f.is_gsoc # PyNone, Atom("is_gsoc", "equal", f.is_gsoc))
    \o Cond(f.is_hacktoberfest # PyNone,
            Atom("is_hacktoberfest", "equal", f.is_hacktoberfest))
    \o Cond(f.has_good_first_issues # PyNone,
            Atom("has_good_first_issues", "equal", f.has_good_first_issues))
    \o Cond(Truthy(f.name_contains),
            Atom("name", "like", LikePattern(f.name_contains)))
    \o Cond(Truthy(f.description_contains),
            Atom("description", "like", LikePattern(f.description_contains)))

\* combined_filter = combined_filter & condition
RECURSIVE AndFold(_, _)
AndFold(acc, rest) ==
    IF rest = <<>> THEN acc
    ELSE AndFold([t |-> "and", filters |-> <<acc, Head(rest)>>], Tail(rest))

CombinedFilterFirst(conds) ==
    IF conds = <<>> THEN PyNone ELSE Head(conds)

CombinedFilter(conds) ==
    IF conds = <<>> THEN PyNone ELSE AndFold(Head(conds), Tail(conds))

(***************************************************************************)
(* GET /allrepos and GET /hiddengem: validation, the count query, the      *)
(* pagination fields, the windowed fetch and the response.                 *)
(***************************************************************************)
MaxPerPage == 100

SortFields == {"stars", "forks", "updated_at", "created_at", "name"}
SortOrders == {"asc", "desc"}

Pages == 0..MaxPage
Limits == {0, 1, 2, 20, MaxPerPage, MaxPerPage + 1}

\* /hiddengem declares no filter parameter: what a caller adds to the query
\* string is dropped by the framework and never reaches the handler
BrowseRequests ==
    [kind : {"allrepos"}, page : Pages, limit : Limits,
     sort_by : SortFields \cup {"invalid"}, sort_order : SortOrders \cup {"ASC"},
     filters : FilterSamples]
    \cup
    [kind : {"hiddengem"}, page : Pages, limit : Limits,
     sort_by : SortFields \cup {"invalid"}, sort_order : SortOrders \cup {"ASC"},
     filters : {NoFilters, [is_underrated |-> PyBool(FALSE)] @@ NoFilters}]

\* /allrepos with its default page, limit and sort, and any filter parameters
FilterRequests ==
    [kind : {"allrepos"}, page : {1}, limit : {20}, sort_by : {"stars"},
     sort_order : {"desc"}, filters : FilterSets]

IsBrowse(r) == r.kind \in {"allrepos", "hiddengem"}

\* the Query(..., ge=, le=) constraints of get_all_repositories' parameters,
\* which the framework checks before it calls the handler
QueryParamsValid(r) ==
    /\ r.page >= 1
    /\ r.limit >= 1
    /\ r.limit <= MaxPerPage
    /\ \A k \in {"min_stars", "max_stars", "min_forks", "max_forks"} :
           r.filters[k] # PyNone => r.filters[k].v >= 0

ValidateSortOnlySortBy(r) ==
    IF r.sort_by \notin SortFields THEN Raised(400, "Invalid sort_by field")
    ELSE NoResp

ValidateSort(r) ==
    IF r.sort_by \notin SortFields THEN Raised(400, "Invalid sort_by field")
    ELSE IF r.sort_order \notin SortOrders
    THEN Raised(400, "Sort order must be 'asc' or 'desc'")
    ELSE NoResp

ValidateAllRepos(r) ==
    IF ~QueryParamsValid(r) THEN Raised(422, "validation error")
    ELSE ValidateSort(r)

ValidateHiddenGems(r) ==
    IF r.page < 1 THEN Raised(400, "Page must be >= 1")
    ELSE IF r.limit < 1 \/ r.limit > MaxPerPage
    THEN Raised(400, "Limit must be between 1 and 100")
    ELSE ValidateSort(r)

Validate(r) ==
    IF r.kind = "allrepos" THEN ValidateAllRepos(r) ELSE ValidateHiddenGems(r)

UnderratedFilter == Atom("is_underrated", "equal", PyBool(TRUE))

BrowseFilterCompiled(r) == CombinedFilter(FilterConditions(r.filters))

\* the predicate of the request: combined_filter, or underrated_filter
BrowseFilter(r) ==
    IF r.kind = "allrepos"
    THEN CombinedFilter(FilterConditions(r.filters))
    ELSE UnderratedFilter

\* 'if combined_filter:' passes filters=combined_filter, else no filters
PassedFilter(flt) == IF Truthy(flt) THEN flt ELSE PyNone

CountCallUnfiltered(flt) == [op |-> "count", filters |-> PyNone]

CountCall(flt) == [op |-> "count", filters |-> PassedFilter(flt)]

OffsetOfPage(page, limit) == page * limit

Offset(page, limit) == (page - 1) * limit

FetchCall(r, l) ==
    [op |-> "fetch", filters |-> PassedFilter(l.combined_filter),
     limit |-> r.limit, offset |-> l.offset,
     sort_by |-> r.sort_by, ascending |-> (r.sort_order = "asc")]

LocInit ==
    [offset |-> 0, combined_filter |-> PyNone, filters_applied |-> <<>>,
     total_count |-> 0, total_pages |-> 0, has_next |-> FALSE, has_prev |-> FALSE]

\* from the arrival of the request to the count query
BrowseStart(r) ==
    IF Validate(r) # NoResp
    THEN [pc |-> "done", calls |-> <<>>, loc |-> LocInit, resp |-> Validate(r)]
    ELSE [pc |-> "count",
          calls |-> <<CountCall(BrowseFilter(r))>>,
          loc |-> [LocInit EXCEPT
                      !.offset = Offset(r.page, r.limit),
                      !.combined_filter = BrowseFilter(r),
                      !.filters_applied =
                          IF r.kind = "allrepos" THEN FiltersApplied(r.filters)
                          ELSE <<>>],
          resp |-> NoResp]

\* math.ceil(total_count / limit)
Ceil(num, den) == (num \div den) + (IF num % den = 0 THEN 0 ELSE 1)

TotalPagesNoFloor(total_count, limit) == Ceil(total_count, limit)

TotalPages(total_count, limit) ==
    IF total_count > 0 THEN Ceil(total_count, limit) ELSE 1

HasNextInclusive(page, total_pages) == page <= total_pages

HasNext(page, total_pages) == page < total_pages

HasPrev(page) == page > 1

BrowseFailureRaised(r) == Raised(500, "Internal server error")

BrowseFailure(r) ==
    Returned([success |-> FALSE, data |-> <<>>, pagination |-> <<>>,
              filters_applied |-> PyNone,
              error |-> PyStr(IF r.kind = "allrepos"
                              THEN "Failed to fetch repositories"
                              ELSE "Failed to fetch hidden gems")])

\* a page after the last one refused instead of fetched
BrowseAfterCountInRange(r, cs, l, out) ==
    IF out.raised \/ r.page > TotalPages(out.total_count, r.limit)
    THEN [pc |-> "done", calls |-> cs, loc |-> l, resp |-> BrowseFailure(r)]
    ELSE [pc |-> "fetch",
          calls |-> Append(cs, FetchCall(r, l)),
          loc |-> [l EXCEPT
                      !.total_count = out.total_count,
                      !.total_pages = TotalPages(out.total_count, r.limit),
                      !.has_next = HasNext(r.page, TotalPages(out.total_count, r.limit)),
                      !.has_prev = HasPrev(r.page)],
          resp |-> NoResp]

\* from the return of the count query to the windowed fetch
BrowseAfterCount(r, cs, l, out) ==
    IF out.raised
    THEN [pc |-> "done", calls |-> cs, loc |-> l, resp |-> BrowseFailure(r)]
    ELSE [pc |-> "fetch",
          calls |-> Append(cs, FetchCall(r, l)),
          loc |-> [l EXCEPT
                      !.total_count = out.total_count,
                      !.total_pages = TotalPages(out.total_count, r.limit),
                      !.has_next = HasNext(r.page, TotalPages(out.total_count, r.limit)),
                      !.has_prev = HasPrev(r.page)],
          resp |-> NoResp]

\* props.get(key) or default
GetOr(props, key, default) ==
    IF Truthy(Get(props, key, PyNone)) THEN Get(props, key, PyNone) ELSE default

\* the keyword arguments of Repository(...) in the two browse handlers
FormatBrowseResult(obj) ==
    LET props == obj.properties
    IN  [name |-> GetOr(props, "name", PyStr(<<>>)),
         full_name |-> GetOr(props, "full_name", PyStr(<<>>)),
         description |-> GetOr(props, "description", PyStr(<<>>)),
         url |-> GetOr(props, "url", PyStr(<<>>)),
         homepage |-> GetOr(props, "homepage", PyStr(<<>>)),
         language |-> GetOr(props, "language", PyStr(<<>>)),
         languages |-> SplitField(props, "languages"),
         topics |-> SplitField(props, "topics"),
         stars |-> GetOr(props, "stars", PyInt(0)),
         forks |-> GetOr(props, "forks", PyInt(0)),
         open_issues |-> GetOr(props, "open_issues", PyInt(0)),
         license |-> GetOr(props, "license", PyStr(<<>>)),
         has_issues |-> GetOr(props, "has_issues", PyBool(FALSE)),
         has_wiki |-> GetOr(props, "has_wiki", PyBool(FALSE)),
         created_at |-> GetOr(props, "created_at", PyStr(<<>>)),
         updated_at |-> GetOr(props, "updated_at", PyStr(<<>>))]

FormatBrowseRaises(obj) ==
    \/ SplitFieldRaises(obj.properties, "topics")
    \/ SplitFieldRaises(obj.properties, "languages")
    \/ ~RepositoryValid(FormatBrowseResult(obj))

OptPage(cond, n) == IF cond THEN PyInt(n) ELSE PyNone

PaginationInfo(r, l) ==
    [current_page |-> r.page, per_page |-> r.limit,
     total_items |-> l.total_count, total_pages |-> l.total_pages,
     has_next |-> l.has_next, has_previous |-> l.has_prev,
     next_page |-> OptPage(l.has_next, r.page + 1),
     previous_page |-> OptPage(l.has_prev, r.page - 1),
     sort_by |-> r.sort_by, sort_order |-> r.sort_order]

\* from the return of the windowed fetch to the response
BrowseAfterFetch(r, cs, l, out) ==
    [pc |-> "done", calls |-> cs, loc |-> l,
     resp |->
         IF out.raised \/ \E i \in 1..Len(out.objects) :
                              FormatBrowseRaises(out.objects[i])
         THEN BrowseFailure(r)
         ELSE Returned(
                  [success |-> TRUE,
                   data |-> [i \in 1..Len(out.objects) |->
                                Repository(FormatBrowseResult(out.objects[i]))],
                   pagination |-> PaginationInfo(r, l),
                   filters_applied |->
                       IF r.kind = "allrepos" /\ l.filters_applied # <<>>
                       THEN [t |-> "dict", v |-> l.filters_applied]
                       ELSE PyNone,
                   error |-> PyNone])]

(***************************************************************************)
(* The backend index, seen through the request's predicate: the number of  *)
(* records that match it now.  Record i of the sorted match list is        *)
(* RawOf(i).                                                               *)
(***************************************************************************)
RawOf(i) == IF i % 3 = 1 THEN RawA ELSE IF i % 3 = 2 THEN RawB ELSE RawNull

Min(a, b) == IF a < b THEN a ELSE b
Max(a, b) == IF a > b THEN a ELSE b

\* fetch_objects(filters, limit, offset, sort) on n matching records
Window(n, offset, limit) ==
    [i \in 1..Max(0, Min(limit, n - offset)) |-> RawOf(offset + i)]

(***************************************************************************)
(* execute_search_code called by several requests at once.  Each call      *)
(* builds its exec_globals dictionary, runs the snippet against it and     *)
(* reads 'results' back; the three steps of different calls interleave in  *)
(* any order.  The handlers are coroutines that never await, so the event  *)
(* loop runs them one after the other: the interleavings here include that *)
(* schedule and every other one.                                           *)
(***************************************************************************)
Callers == 1..NumCalls

\* what a snippet does to the name 'results' of its globals: nothing, or
\* binds it to a value
Snippets ==
    {[writes |-> FALSE, value |-> PyNone],
     [writes |-> TRUE, value |-> PyNone],
     [writes |-> TRUE, value |-> QueryReturn(<<>>)],
     [writes |-> TRUE, value |-> QueryReturn(<<RawA>>)],
     [writes |-> TRUE, value |-> QueryReturn(<<RawB>>)]}

NoSnippet == [writes |-> FALSE, value |-> PyNone]

\* one dictionary on the service object, used by every call
ExecGlobalsShared(c) == 0

\* exec_globals = {...}: a dictionary of the call's own
ExecGlobalsOf(c) == c

FrameInit == [at |-> "out", snippet |-> NoSnippet, seen |-> PyNone, got |-> <<>>]

SandboxesInit ==
    [frame |-> [c \in Callers |-> FrameInit],
     results |-> [d \in 0..NumCalls |-> PyNone]]

\* exec_globals = {'client': ..., 'model': ..., 'query_text': ..., 'results': None}
EnterSandbox(sb, c, snippet) ==
    [frame |-> [sb.frame EXCEPT ![c] = [FrameInit EXCEPT !.at = "built",
                                                        !.snippet = snippet]],
     results |-> [sb.results EXCEPT ![ExecGlobalsOf(c)] = PyNone]]

\* exec(generated_code, exec_globals)
RunSnippet(sb, c) ==
    [frame |-> [sb.frame EXCEPT ![c].at = "ran",
                                ![c].seen = sb.results[ExecGlobalsOf(c)]],
     results |-> IF sb.frame[c].snippet.writes
                 THEN [sb.results EXCEPT ![ExecGlobalsOf(c)] =
                                             sb.frame[c].snippet.value]
                 ELSE sb.results]

\* results = exec_globals.get('results') and the formatting that follows
LeaveSandbox(sb, c) ==
    [frame |-> [sb.frame EXCEPT
                   ![c].at = "returned",
                   ![c].got = ExecuteSearchCode(
                                  [raised |-> FALSE,
                                   slot |-> sb.results[ExecGlobalsOf(c)]]).results],
     results |-> sb.results]

(***************************************************************************)
(* The state machine.                                                      *)
(***************************************************************************)
\* from the arrival of the body to the call of the generation collaborator
SearchStart(body) ==
    IF ~SearchRequestValid(body)
    THEN [pc |-> "done", req |-> [kind |-> "search", query |-> body.query,
                                  limit |-> body.limit],
          calls |-> <<>>, resp |-> Raised(422, "validation error")]
    ELSE [pc |-> "generate", req |-> SearchRequest(body),
          calls |-> <<GenerateCall(SearchRequest(body))>>, resp |-> NoResp]

Init ==
    /\ pc = "idle"
    /\ req = [kind |-> "none"]
    /\ calls = <<>>
    /\ rets = <<>>
    /\ code = <<>>
    /\ loc = LocInit
    /\ resp = NoResp
    /\ matching = 0
    /\ sandboxes = SandboxesInit

ReceiveSearch ==
    /\ pc = "idle"
    /\ \E body \in SearchBodies :
           LET n == SearchStart(body)
           IN  /\ pc' = n.pc
               /\ req' = n.req
               /\ calls' = n.calls
               /\ resp' = n.resp
    /\ rets' = <<>>
    /\ code' = <<>>
    /\ loc' = LocInit
    /\ UNCHANGED <<matching, sandboxes>>

GenerationAnswers(gen) ==
    LET n == SearchAfterGenerate(req, calls, gen)
    IN  /\ rets' = Append(rets, [op |-> "generate", out |-> gen])
        /\ pc' = n.pc
        /\ calls' = n.calls
        /\ code' = n.code
        /\ resp' = n.resp
        /\ UNCHANGED <<req, loc, matching, sandboxes>>

GenerationReturns ==
    /\ pc = "generate"
    /\ \E gen \in GenOutcomes : GenerationAnswers(gen)

SandboxAnswers(outcome) ==
    LET n == SearchAfterExec(req, calls, code, outcome)
    IN  /\ rets' = Append(rets, [op |-> "exec", out |-> outcome])
        /\ pc' = n.pc
        /\ calls' = n.calls
        /\ code' = n.code
        /\ resp' = n.resp
        /\ UNCHANGED <<req, loc, matching, sandboxes>>

SandboxReturns ==
    /\ pc = "exec"
    /\ \E outcome \in ExecOutcomes(code) : SandboxAnswers(outcome)

BrowseArrives(r) ==
    LET n == BrowseStart(r)
    IN  /\ req' = r
        /\ pc' = n.pc
        /\ calls' = n.calls
        /\ loc' = n.loc
        /\ resp' = n.resp
        /\ IF n.pc = "count"
           THEN matching' \in 0..MaxTotal
           ELSE matching' = 0
        /\ rets' = <<>>
        /\ code' = <<>>
        /\ UNCHANGED sandboxes

ReceiveBrowse ==
    /\ pc = "idle"
    /\ \E r \in BrowseRequests : BrowseArrives(r)

\* a browse request drawn from all the combinations of filter parameters
ReceiveFiltered ==
    /\ pc = "idle"
    /\ \E r \in FilterRequests : BrowseArrives(r)

CountOutcomes ==
    {[raised |-> TRUE, total_count |-> 0],
     [raised |-> FALSE, total_count |-> matching]}

CountReturns ==
    /\ pc = "count"
    /\ \E out \in CountOutcomes :
           LET n == BrowseAfterCount(req, calls, loc, out)
           IN  /\ rets' = Append(rets, [op |-> "count", out |-> out])
               /\ pc' = n.pc
               /\ calls' = n.calls
               /\ loc' = n.loc
               /\ resp' = n.resp
    /\ UNCHANGED <<req, code, matching, sandboxes>>

FetchOutcomes ==
    {[raised |-> TRUE, objects |-> <<>>],
     [raised |-> FALSE, objects |-> Window(matching, loc.offset, req.limit)]}

FetchAnswers(out) ==
    LET n == BrowseAfterFetch(req, calls, loc, out)
    IN  /\ rets' = Append(rets, [op |-> "fetch", out |-> out])
        /\ pc' = n.pc
        /\ calls' = n.calls
        /\ loc' = n.loc
        /\ resp' = n.resp
        /\ UNCHANGED <<req, code, matching, sandboxes>>

FetchReturns ==
    /\ pc = "fetch"
    /\ \E out \in FetchOutcomes : FetchAnswers(out)

\* the response (or the error) goes out and the handler's frame is dropped;
\* the service waits for the next request
Deliver ==
    /\ pc = "done"
    /\ pc' = "idle"
    /\ req' = [kind |-> "none"]
    /\ calls' = <<>>
    /\ rets' = <<>>
    /\ code' = <<>>
    /\ loc' = LocInit
    /\ resp' = NoResp
    /\ matching' = 0
    /\ UNCHANGED sandboxes

\* records are added to and removed from the index by other parties while
\* the request is between its two backend calls
BackendChanges ==
    /\ pc \in {"count", "fetch"}
    /\ \E n \in 0..MaxTotal : n # matching /\ matching' = n
    /\ UNCHANGED <<pc, req, calls, rets, code, loc, resp, sandboxes>>

Next ==
    \/ ReceiveSearch
    \/ GenerationReturns
    \/ SandboxReturns
    \/ ReceiveBrowse
    \/ CountReturns
    \/ FetchReturns
    \/ Deliver
    \/ BackendChanges

Spec == Init /\ [][Next]_vars

\* the browse handler over every combination of filter parameters, the
\* backend index unchanged while a request is in progress
NextFilter ==
    \/ ReceiveFiltered
    \/ CountReturns
    \/ FetchReturns
    \/ Deliver

SpecFilter == Init /\ [][NextFilter]_vars

\* every call to a collaborator returns or raises, and a response that is
\* ready goes out
CollaboratorsAnswer ==
    /\ WF_vars(GenerationReturns)
    /\ WF_vars(SandboxReturns)
    /\ WF_vars(CountReturns)
    /\ WF_vars(FetchReturns)
    /\ WF_vars(Deliver)

\* the browse requests that differ in the path the handler takes: either
\* endpoint, valid or refused for its page, its limit or its sort field
LiveRequests ==
    {r \in BrowseRequests :
        /\ r.page \in {0, 1}
        /\ r.limit \in {0, 2}
        /\ r.sort_by \in {"stars", "invalid"}
        /\ r.sort_order = "desc"
        /\ r.filters = NoFilters}

\* the search bodies that differ in the path the handler takes: accepted,
\* or refused by the validation
LiveBodies == {b \in SearchBodies : b.limit = Absent}

ReceiveLiveSearch ==
    /\ pc = "idle"
    /\ \E body \in LiveBodies :
           LET n == SearchStart(body)
           IN  /\ pc' = n.pc
               /\ req' = n.req
               /\ calls' = n.calls
               /\ resp' = n.resp
    /\ rets' = <<>>
    /\ code' = <<>>
    /\ loc' = LocInit
    /\ UNCHANGED <<matching, sandboxes>>

ReceiveLiveBrowse ==
    /\ pc = "idle"
    /\ \E r \in LiveRequests : BrowseArrives(r)

NextLive ==
    \/ ReceiveLiveSearch
    \/ GenerationReturns
    \/ SandboxReturns
    \/ ReceiveLiveBrowse
    \/ CountReturns
    \/ FetchReturns
    \/ Deliver
    \/ BackendChanges

SpecLive == Init /\ [][NextLive]_vars /\ CollaboratorsAnswer

\* the two paths of the result normalizer over every property bag: a search
\* whose snippet finds one record, and the first page of /allrepos over an
\* index that holds one record
ReceivePlainSearch ==
    /\ pc = "idle"
    /\ LET n == SearchStart([query |-> <<"A", " ", "b">>, limit |-> Absent])
       IN  /\ pc' = n.pc
           /\ req' = n.req
           /\ calls' = n.calls
           /\ resp' = n.resp
    /\ rets' = <<>>
    /\ code' = <<>>
    /\ loc' = LocInit
    /\ UNCHANGED <<matching, sandboxes>>

SnippetGenerated ==
    /\ pc = "generate"
    /\ LET gen == [raised |-> FALSE, text |-> PyStr(<<"x">>)]
           n == SearchAfterGenerate(req, calls, gen)
       IN  /\ rets' = Append(rets, [op |-> "generate", out |-> gen])
           /\ pc' = n.pc
           /\ calls' = n.calls
           /\ code' = n.code
           /\ resp' = n.resp
    /\ UNCHANGED <<req, loc, matching, sandboxes>>

SandboxFindsRecord ==
    /\ pc = "exec"
    /\ \E b \in PropertyBags, m \in Metadatas :
           SandboxAnswers([raised |-> FALSE,
                           slot |-> QueryReturn(<<[properties |-> b,
                                                   metadata |-> m]>>)])

ReceivePlainBrowse ==
    /\ pc = "idle"
    /\ BrowseArrives([kind |-> "allrepos", page |-> 1, limit |-> 20,
                      sort_by |-> "stars", sort_order |-> "desc",
                      filters |-> NoFilters])
    /\ matching' = 1

FetchFindsRecord ==
    /\ pc = "fetch"
    /\ \E b \in PropertyBags :
           FetchAnswers([raised |-> FALSE,
                         objects |-> <<[properties |-> b,
                                        metadata |-> NoMetadata]>>])

NextRecords ==
    \/ ReceivePlainSearch
    \/ SnippetGenerated
    \/ SandboxFindsRecord
    \/ ReceivePlainBrowse
    \/ CountReturns
    \/ FetchFindsRecord
    \/ Deliver

SpecRecords == Init /\ [][NextRecords]_vars

\* the post-processing of the generated text over every response of at most
\* MaxSnippet tokens; the snippet then runs and leaves no result
AnyTextGenerated ==
    /\ pc = "generate"
    /\ \E txt \in SeqsUpTo(GenAlphabet, MaxSnippet) :
           GenerationAnswers([raised |-> FALSE, text |-> PyStr(txt)])

SandboxFindsNothing ==
    /\ pc = "exec"
    /\ SandboxAnswers([raised |-> FALSE, slot |-> PyNone])

NextSnippets ==
    \/ ReceivePlainSearch
    \/ AnyTextGenerated
    \/ SandboxFindsNothing
    \/ Deliver

SpecSnippets == Init /\ [][NextSnippets]_vars

CallEnters ==
    /\ \E c \in Callers, snippet \in Snippets :
           /\ sandboxes.frame[c].at = "out"
           /\ sandboxes' = EnterSandbox(sandboxes, c, snippet)
    /\ UNCHANGED handler

CallRuns ==
    /\ \E c \in Callers :
           /\ sandboxes.frame[c].at = "built"
           /\ sandboxes' = RunSnippet(sandboxes, c)
    /\ UNCHANGED handler

CallLeaves ==
    /\ \E c \in Callers :
           /\ sandboxes.frame[c].at = "ran"
           /\ sandboxes' = LeaveSandbox(sandboxes, c)
    /\ UNCHANGED handler

\* the caller takes the result; its frame and its dictionary are dropped
CallEnds ==
    /\ \E c \in Callers :
           /\ sandboxes.frame[c].at = "returned"
           /\ sandboxes' = [sandboxes EXCEPT !.frame[c] = FrameInit]
    /\ UNCHANGED handler

NextSandboxes ==
    \/ CallEnters
    \/ CallRuns
    \/ CallLeaves
    \/ CallEnds

SpecSandboxes == Init /\ [][NextSandboxes]_vars

(***************************************************************************)
(* Properties.                                                             *)
(***************************************************************************)
CallsOf(op) == {i \in DOMAIN calls : calls[i].op = op}

RetsOf(op) == {i \in DOMAIN rets : rets[i].op = op}

\* a browse request outside the enumerations or the ranges
BrowseInvalid(r) ==
    \/ r.sort_by \notin {"stars", "forks", "updated_at", "created_at", "name"}
    \/ r.sort_order \notin {"asc", "desc"}
    \/ r.page < 1
    \/ r.limit < 1
    \/ r.limit > 100

BrowseSucceeded ==
    /\ IsBrowse(req)
    /\ pc = "done"
    /\ resp.kind = "returned"
    /\ resp.body.success

\* C1: a browse request (allrepos or hiddengem) with sort_by or sort_order
\* outside its enumeration, or page < 1, limit < 1 or limit > 100, ends in a
\* request error (status 400 or 422) and no count query and no windowed
\* fetch is issued for it.
C1_ValidationPrecedesBackend ==
    (IsBrowse(req) /\ BrowseInvalid(req)) =>
        /\ pc = "done"
        /\ resp.kind = "raised"
        /\ resp.status \in {400, 422}
        /\ CallsOf("count") = {}
        /\ CallsOf("fetch") = {}

C1_Witness ==
    /\ req.kind = "allrepos"
    /\ req.page >= 1 /\ req.limit = 20 /\ req.sort_by = "stars"
    /\ req.sort_order = "ASC"
    /\ pc = "done"
    /\ resp.kind = "raised"

\* the generation collaborator failed during the search request in progress
GenerationFailed ==
    /\ req.kind = "search"
    /\ RetsOf("generate") # {}
    /\ \E i \in RetsOf("generate") : rets[i].out.raised \/ rets[i].out.text = PyNone

\* C2 as stated: when the generation collaborator fails during a search
\* request, the handler returns a structured failure result (success=false
\* with an error field) instead of raising.
C2_Original ==
    (GenerationFailed /\ pc = "done") =>
        /\ resp.kind = "returned"
        /\ ~resp.body.success
        /\ resp.body.error # PyNone

\* C2 amended: when the generation collaborator fails during a search
\* request, the handler catches the failure and raises an HTTP 500 error
\* "Failed to generate search code"; it returns no response model and does
\* not invoke the sandbox.
C2_SynthesisFailureRaised ==
    GenerationFailed =>
        /\ pc = "done"
        /\ resp = Raised(500, "Failed to generate search code")
        /\ CallsOf("exec") = {}

C2_Witness ==
    /\ GenerationFailed
    /\ rets[1].out.raised
    /\ pc = "done"
    /\ resp.kind = "raised"

AllBlank(s) == \A i \in DOMAIN s : s[i] = " "

\* a text that is blank but for one leading fence marker (with or without
\* its python tag) and one trailing fence marker
EmptyButFences(txt) ==
    LET s == Strip(txt)
    IN  \E p \in {<<>>, <<Fence>>, <<Fence, PyTag>>}, q \in {<<>>, <<Fence>>} :
            /\ Len(s) >= Len(p) + Len(q)
            /\ StartsWith(s, p)
            /\ EndsWith(s, q)
            /\ AllBlank(SubSeq(s, Len(p) + 1, Len(s) - Len(q)))

\* the generation collaborator answered the search request with a text
GenerationAnswered ==
    /\ req.kind = "search"
    /\ RetsOf("generate") # {}
    /\ ~rets[1].out.raised
    /\ rets[1].out.text # PyNone

\* C3 as stated: when the generation collaborator returns a text that is
\* empty or only whitespace and fence markers, the search never ends as a
\* successful search.
C3_Original ==
    (/\ GenerationAnswered
     /\ \A i \in DOMAIN rets[1].out.text.v : rets[1].out.text.v[i] \in {" ", Fence}
     /\ pc = "done")
        => ~(resp.kind = "returned" /\ resp.body.success)

\* C3 amended: when the generation collaborator returns a text that is empty
\* but for whitespace, one leading fence marker and one trailing fence
\* marker, no synthesis failure is reported: the empty snippet goes to the
\* sandbox (one exec call, with the empty snippet), and the search ends as
\* a successful search with an empty result list and results_count 0.
C3_EmptyTextIsEmptySuccess ==
    (GenerationAnswered /\ EmptyButFences(rets[1].out.text.v)) =>
        /\ pc \in {"exec", "done"}
        /\ Cardinality(CallsOf("exec")) = 1
        /\ \A i \in CallsOf("exec") : calls[i].code = <<>>
        /\ pc = "done" =>
               /\ resp.kind = "returned"
               /\ resp.body.success
               /\ resp.body.results = <<>>
               /\ resp.body.results_count = 0
               /\ resp.body.error = PyNone

C3_Witness ==
    /\ GenerationAnswered
    /\ rets[1].out.text.v = <<" ", Fence, PyTag>>
    /\ pc = "done"
    /\ resp.kind = "returned"
    /\ resp.body.success

\* an exception was raised while the sandbox evaluated the snippet or
\* formatted what it left in the slot
SandboxRaised ==
    /\ req.kind = "search"
    /\ RetsOf("exec") # {}
    /\ \E i \in RetsOf("exec") :
           \/ rets[i].out.raised
           \/ /\ rets[i].out.slot.t = "query_return"
              /\ \E k \in DOMAIN rets[i].out.slot.objects :
                     \E f \in {"topics", "languages"} :
                         LET props == rets[i].out.slot.objects[k].properties
                         IN  /\ f \in DOMAIN props
                             /\ Truthy(props[f])
                             /\ props[f].t # "str"

\* C4: an exception raised while the sandbox evaluates a snippet gives a
\* returned failure result: success=false, no results, results_count=0, an
\* error, and the snippet that failed; the snippet was executed once.
C4_ExecutionFailureReturned ==
    SandboxRaised =>
        /\ pc = "done"
        /\ resp.kind = "returned"
        /\ ~resp.body.success
        /\ resp.body.results = <<>>
        /\ resp.body.results_count = 0
        /\ resp.body.error # PyNone
        /\ Cardinality(CallsOf("exec")) = 1
        /\ \A i \in CallsOf("exec") : resp.body.generated_code = PyStr(calls[i].code)

C4_Witness ==
    /\ SandboxRaised
    /\ rets[2].out.raised
    /\ code # <<>>
    /\ pc = "done"
    /\ resp.kind = "returned"

\* the snippet ended without raising and left the slot empty or holding a
\* value without an 'objects' attribute
SlotEmptyOrShapeless ==
    /\ req.kind = "search"
    /\ RetsOf("exec") # {}
    /\ ~rets[2].out.raised
    /\ \/ rets[2].out.slot = PyNone
       \/ "objects" \notin DOMAIN rets[2].out.slot

\* C5: a snippet that ends without raising and leaves the output slot empty
\* or without the result-collection shape gives a successful search with
\* zero results, not an error.
C5_EmptySlotIsEmptySuccess ==
    SlotEmptyOrShapeless =>
        /\ pc = "done"
        /\ resp.kind = "returned"
        /\ resp.body.success
        /\ resp.body.results = <<>>
        /\ resp.body.results_count = 0
        /\ resp.body.error = PyNone

C5_Witness ==
    /\ SlotEmptyOrShapeless
    /\ rets[2].out.slot = PyStr(<<"x">>)
    /\ code # <<>>
    /\ pc = "done"
    /\ resp.kind = "returned"

\* the answer to call i was a failure
Failed(i) ==
    \/ rets[i].out.raised
    \/ rets[i].op = "generate" /\ rets[i].out.text = PyNone

\* C6: within one request each collaborator (generation, sandbox, count,
\* fetch) is called at most once, and after a call has failed no further
\* call is made.
C6_NoRetries ==
    /\ \A op \in {"generate", "exec", "count", "fetch"} :
           Cardinality(CallsOf(op)) <= 1
    /\ \A i \in DOMAIN rets : Failed(i) => Len(calls) = i

C6_Witness ==
    /\ req.kind = "search"
    /\ Len(rets) = 1
    /\ Failed(1)
    /\ pc = "done"

\* C7: a browse request that reaches the backend issues the count query
\* first and the windowed fetch after it, both with the same predicate, and
\* with no predicate at all when the request names no filter parameter.
C7_CountBeforeFetchSamePredicate ==
    (IsBrowse(req) /\ calls # <<>>) =>
        /\ calls[1].op = "count"
        /\ \A i \in CallsOf("fetch") :
               /\ i > 1
               /\ calls[i].filters = calls[1].filters
        /\ (req.kind = "allrepos" /\ \A k \in FilterNames : req.filters[k] = PyNone)
               => calls[1].filters = PyNone
        /\ (req.kind = "allrepos" /\ req.filters.min_stars # PyNone)
               => calls[1].filters # PyNone

C7_Witness ==
    /\ req.kind = "allrepos"
    /\ req.filters.min_stars = PyInt(4)
    /\ CallsOf("fetch") # {}
    /\ calls[2].filters # PyNone
    /\ calls[2].filters = calls[1].filters

\* C8: total_pages of a page envelope is max(1, ceil(total_items/per_page)):
\* the least n >= 1 with n * per_page >= total_items, where total_items is
\* what the count query returned.
C8_TotalPages ==
    BrowseSucceeded =>
        LET pg == resp.body.pagination
        IN  /\ pg.total_items = rets[1].out.total_count
            /\ pg.total_pages >= 1
            /\ pg.total_pages * pg.per_page >= pg.total_items
            /\ pg.total_pages > 1 =>
                   (pg.total_pages - 1) * pg.per_page < pg.total_items

C8_Witness ==
    /\ BrowseSucceeded
    /\ resp.body.pagination.total_items = 0
    /\ resp.body.pagination.total_pages = 1

\* C9: in a page envelope has_next is current_page < total_pages,
\* has_previous is current_page > 1, next_page is current_page + 1 when
\* has_next and null otherwise, previous_page is current_page - 1 when
\* has_previous and null otherwise.
C9_Navigation ==
    BrowseSucceeded =>
        LET pg == resp.body.pagination
        IN  /\ pg.has_next <=> pg.current_page < pg.total_pages
            /\ pg.has_previous <=> pg.current_page > 1
            /\ pg.has_next => pg.next_page = PyInt(pg.current_page + 1)
            /\ ~pg.has_next => pg.next_page = PyNone
            /\ pg.has_previous => pg.previous_page = PyInt(pg.current_page - 1)
            /\ ~pg.has_previous => pg.previous_page = PyNone

C9_Witness ==
    /\ BrowseSucceeded
    /\ resp.body.pagination.has_next
    /\ resp.body.pagination.has_previous
    /\ resp.body.pagination.current_page = 2

\* C10: the windowed fetch of a browse request is issued with
\* offset = (page - 1) * per_page and limit = per_page, and the envelope
\* reports the page and the page size of the request.
C10_OffsetAndWindow ==
    IsBrowse(req) =>
        /\ \A i \in CallsOf("fetch") :
               /\ calls[i].offset = (req.page - 1) * req.limit
               /\ calls[i].limit = req.limit
        /\ BrowseSucceeded =>
               /\ resp.body.pagination.current_page = req.page
               /\ resp.body.pagination.per_page = req.limit

C10_Witness ==
    /\ BrowseSucceeded
    /\ req.page = 2
    /\ req.limit = 20
    /\ calls[2].offset = 20
    /\ resp.body.pagination.current_page = 2

(***************************************************************************)
(* The filter compiler, read back from the count query of the request.     *)
(***************************************************************************)
\* the atomic comparisons of a compiled predicate, from left to right
RECURSIVE Leaves(_)
Leaves(flt) ==
    IF flt.t = "none" THEN <<>>
    ELSE IF flt.t = "value" THEN <<flt>>
    ELSE Leaves(flt.filters[1]) \o Leaves(flt.filters[2])

RECURSIVE PureAnd(_)
PureAnd(flt) ==
    \/ flt.t \in {"none", "value"}
    \/ /\ flt.t = "and"
       /\ Len(flt.filters) = 2
       /\ PureAnd(flt.filters[1])
       /\ PureAnd(flt.filters[2])

\* the record property and the operator each parameter stands for
PropOf(k) ==
    CASE k \in {"min_stars", "max_stars"} -> "stars"
      [] k \in {"min_forks", "max_forks"} -> "forks"
      [] k = "name_contains" -> "name"
      [] k = "description_contains" -> "description"
      [] OTHER -> k

OpOf(k) ==
    CASE k \in {"languages", "topics"} -> "contains_any"
      [] k \in {"name_contains", "description_contains"} -> "like"
      [] k \in {"min_stars", "min_forks"} -> "greater_or_equal"
      [] k \in {"max_stars", "max_forks"} -> "less_or_equal"
      [] OTHER -> "equal"

AtomsFor(flt, k) ==
    {i \in DOMAIN Leaves(flt) :
        Leaves(flt)[i].prop = PropOf(k) /\ Leaves(flt)[i].op = OpOf(k)}

\* the parameters the query string gives, and those it gives a non-empty
\* value
Present(f) == {k \in FilterNames : f[k] # PyNone}
Supplied(f) == {k \in FilterNames : f[k] # PyNone /\ f[k] # PyStr(<<>>)}

Compiled == req.kind = "allrepos" /\ CallsOf("count") # {}

OneAtomEach(flt, given) ==
    /\ (flt = PyNone) <=> (given = {})
    /\ PureAnd(flt)
    /\ Len(Leaves(flt)) = Cardinality(given)
    /\ \A k \in FilterNames :
           Cardinality(AtomsFor(flt, k)) = (IF k \in given THEN 1 ELSE 0)

\* C11 as the specification words it: the predicate of the count query is
\* 'no filter' exactly when every parameter is absent, and otherwise a pure
\* conjunction with exactly one comparison for each present parameter and
\* none for an absent one.
C11_Original ==
    Compiled => OneAtomEach(calls[1].filters, Present(req.filters))

\* C11: the predicate of the count query is 'no filter' exactly when every
\* parameter is absent or given the empty string, and otherwise a pure
\* conjunction (no disjunction) with exactly one comparison for each
\* parameter given a non-empty value and none for the others; the windowed
\* fetch carries the same predicate.
C11_OneAtomPerSuppliedParameter ==
    Compiled =>
        /\ OneAtomEach(calls[1].filters, Supplied(req.filters))
        /\ \A i \in CallsOf("fetch") : calls[i].filters = calls[1].filters

C11_Witness ==
    /\ Compiled
    /\ CallsOf("fetch") # {}
    /\ req.filters.topics = PyStr(<<",">>)
    /\ req.filters.is_gsoc = PyBool(FALSE)
    /\ Present(req.filters) = {"topics", "is_gsoc"}
    /\ calls[1].filters.t = "and"
    /\ Len(Leaves(calls[1].filters)) = 2

\* the comparison a parameter with value v stands for
ExpectedAtom(k, v) ==
    [t |-> "value", prop |-> PropOf(k), op |-> OpOf(k),
     val |-> CASE k = "language" -> PyStr(Lower(v.v))
               [] k \in {"languages", "topics"} ->
                      PyList([i \in 1..Len(Split(v.v)) |->
                                 PyStr(Lower(Strip(Split(v.v)[i])))])
               [] k \in {"name_contains", "description_contains"} ->
                      PyStr(<<"*">> \o Lower(v.v) \o <<"*">>)
               [] OTHER -> v]

HasAtom(flt, a) == \E i \in DOMAIN Leaves(flt) : Leaves(flt)[i] = a

\* C12 as the specification words it: each present parameter compiles to
\* the operator and operand of its type.
C12_Original ==
    Compiled =>
        \A k \in Present(req.filters) :
            HasAtom(calls[1].filters, ExpectedAtom(k, req.filters[k]))

\* C12: each parameter given a non-empty value compiles to the operator and
\* operand of its type: languages and topics to contains_any on the list of
\* the comma-separated parts, trimmed and lower-cased; name_contains and
\* description_contains to like on '*' + lower-cased text + '*'; min_* to
\* greater_or_equal and max_* to less_or_equal on stars or forks; language
\* to equal on the lower-cased value; license and the booleans to equal on
\* the value given.  language=Ab with min_stars=4 compiles to
\* language == "ab" AND stars >= 4.
C12_OperatorPerType ==
    Compiled =>
        /\ \A k \in Supplied(req.filters) :
               HasAtom(calls[1].filters, ExpectedAtom(k, req.filters[k]))
        /\ req.filters.languages = PyStr(<<"A", ",", " ", "b">>) =>
               HasAtom(calls[1].filters,
                       [t |-> "value", prop |-> "languages",
                        op |-> "contains_any",
                        val |-> PyList(<<PyStr(<<"a">>), PyStr(<<"b">>)>>)])
        /\ req.filters.name_contains = PyStr(<<"A", "b">>) =>
               HasAtom(calls[1].filters,
                       [t |-> "value", prop |-> "name", op |-> "like",
                        val |-> PyStr(<<"*", "a", "b", "*">>)])
        /\ (/\ req.filters.language = PyStr(<<"A", "b">>)
            /\ req.filters.min_stars = PyInt(4)
            /\ Present(req.filters) = {"language", "min_stars"}) =>
               calls[1].filters =
                   [t |-> "and",
                    filters |->
                        <<[t |-> "value", prop |-> "language", op |-> "equal",
                           val |-> PyStr(<<"a", "b">>)],
                          [t |-> "value", prop |-> "stars",
                           op |-> "greater_or_equal", val |-> PyInt(4)]>>]

C12_Witness ==
    /\ Compiled
    /\ req.filters.language = PyStr(<<"A", "b">>)
    /\ req.filters.min_stars = PyInt(4)
    /\ Present(req.filters) = {"language", "min_stars"}
    /\ Len(Leaves(calls[1].filters)) = 2
    /\ Leaves(calls[1].filters)[2].op = "greater_or_equal"

\* C13: a hidden-gems request that passes validation issues its count query,
\* and every backend call it makes (count and windowed fetch) carries
\* exactly the single comparison is_underrated == true, whatever its page,
\* limit, sort field, sort order and the other parameters of its query
\* string.
C13_HiddenGemsPredicate ==
    req.kind = "hiddengem" =>
        /\ ~BrowseInvalid(req) => CallsOf("count") # {}
        /\ \A i \in DOMAIN calls :
               calls[i].filters =
                   [t |-> "value", prop |-> "is_underrated", op |-> "equal",
                    val |-> PyBool(TRUE)]

C13_Witness ==
    /\ req.kind = "hiddengem"
    /\ req.page = 2
    /\ req.sort_by = "name"
    /\ req.sort_order = "asc"
    /\ req.filters.is_underrated = PyBool(FALSE)
    /\ CallsOf("count") # {}
    /\ CallsOf("fetch") # {}
    /\ calls[2].filters.val = PyBool(TRUE)

BackendFailed == \E i \in DOMAIN rets : rets[i].out.raised

\* C14: when the count query or the windowed fetch of a browse request
\* fails, the handler makes no further backend call and returns (does not
\* raise) a failure result: success = false, no items, an empty page
\* envelope and an error message.
C14_BackendFailureReturned ==
    (IsBrowse(req) /\ BackendFailed) =>
        /\ pc = "done"
        /\ Len(calls) = Len(rets)
        /\ resp.kind = "returned"
        /\ resp.body.success = FALSE
        /\ resp.body.data = <<>>
        /\ resp.body.pagination = <<>>
        /\ resp.body.error.t = "str"
        /\ resp.body.error.v # ""

C14_Witness ==
    /\ req.kind = "allrepos"
    /\ Len(rets) = 2
    /\ ~rets[1].out.raised
    /\ rets[2].op = "fetch"
    /\ rets[2].out.raised
    /\ resp.kind = "returned"
    /\ ~resp.body.success

\* C15: under every interleaving of simultaneous sandbox executions, each
\* execution finds its own output slot empty when its snippet starts, and
\* what it returns is what its own snippet left in its own slot: nothing
\* when the snippet wrote nothing or no result object, and otherwise one
\* item for each object its snippet wrote, in order.
C15_SandboxIsolation ==
    \A c \in Callers :
        LET fr == sandboxes.frame[c]
            own == fr.snippet.value
        IN  /\ fr.at \in {"ran", "returned"} => fr.seen = PyNone
            /\ fr.at = "returned" =>
                   IF fr.snippet.writes /\ own # PyNone
                   THEN /\ Len(fr.got) = Len(own.objects)
                        /\ \A i \in 1..Len(fr.got) :
                               fr.got[i].name = own.objects[i].properties.name
                   ELSE fr.got = <<>>

\* two executions in flight at once: the second entered and ran between
\* the run and the return of the first, and each returned its own record
C15_Witness ==
    /\ sandboxes.frame[1].at = "returned"
    /\ sandboxes.frame[2].at = "ran"
    /\ sandboxes.frame[1].snippet.value = QueryReturn(<<RawA>>)
    /\ sandboxes.frame[2].snippet.value = QueryReturn(<<RawB>>)
    /\ Len(sandboxes.frame[1].got) = 1
    /\ sandboxes.frame[1].got[1].name = PyStr(<<"a">>)

InFlight == pc \in {"generate", "exec", "count", "fetch"}

\* C16: provided every collaborator call returns or raises, every search
\* and browse request in progress ends with a response and the service
\* comes back, failures included, to the state in which it takes the next
\* search or browse request; a request leaves only through its response,
\* which is one payload, returned or raised, made when the request ends.
C16_EveryRequestCompletes ==
    /\ (InFlight \/ pc = "done") ~> (pc = "idle")
    /\ [][pc' = "idle" => pc \in {"idle", "done"}]_vars
    /\ [][pc = "done" => pc' = "idle"]_vars
    /\ [](pc = "done" => resp.kind \in {"returned", "raised"})
    /\ [](pc # "done" => resp = NoResp)
    /\ [](pc \in {"idle", "done"} \/ InFlight)
    /\ [](pc = "idle" => (ENABLED ReceiveSearch) /\ (ENABLED ReceiveBrowse))

\* a search request whose sandbox failed, ended with its failure payload
C16_Witness ==
    /\ pc = "done"
    /\ \E i \in DOMAIN rets : rets[i].out.raised
    /\ resp.kind = "returned"
    /\ ~resp.body.success
    /\ req.kind = "search"

(***************************************************************************)
(* The result normalizer, read back from the response of a request whose   *)
(* collaborator found one record.                                          *)
(***************************************************************************)
SearchRecord ==
    /\ req.kind = "search"
    /\ pc = "done"
    /\ Len(rets) = 2
    /\ ~rets[2].out.raised
    /\ rets[2].out.slot.t = "query_return"
    /\ Len(rets[2].out.slot.objects) = 1

SearchRaw == rets[2].out.slot.objects[1]

SearchRendered ==
    /\ resp.kind = "returned"
    /\ resp.body.success
    /\ Len(resp.body.results) = 1

SearchEntity == resp.body.results[1]

BrowseRecord ==
    /\ req.kind = "allrepos"
    /\ pc = "done"
    /\ Len(rets) = 2
    /\ ~rets[2].out.raised
    /\ Len(rets[2].out.objects) = 1

BrowseRaw == rets[2].out.objects[1]

BrowseRendered ==
    /\ resp.kind = "returned"
    /\ resp.body.success
    /\ Len(resp.body.data) = 1

BrowseEntity == resp.body.data[1]

NonNull(md, k) == k \in DOMAIN md /\ md[k] # PyNone

\* C17: an entity of the search path never has both distance and score set:
\* a record whose metadata has a non-null distance gets only the distance
\* (rounded to four decimals), also when a score is present; otherwise a
\* non-null score gives only the score; otherwise neither is set.
C17_DistanceOrScore ==
    (SearchRecord /\ SearchRendered) =>
        LET md == SearchRaw.metadata
            e == SearchEntity
        IN  /\ ~(e.distance # PyNone /\ e.score # PyNone)
            /\ NonNull(md, "distance") =>
                   e.distance = PyFloat(12350) /\ e.score = PyNone
            /\ (~NonNull(md, "distance") /\ NonNull(md, "score")) =>
                   e.distance = PyNone /\ e.score = PyFloat(100000)
            /\ (~NonNull(md, "distance") /\ ~NonNull(md, "score")) =>
                   e.distance = PyNone /\ e.score = PyNone

C17_Witness ==
    /\ SearchRecord
    /\ SearchRendered
    /\ SearchRaw.metadata = [distance |-> PyFloat(12346), score |-> PyFloat(99995)]
    /\ SearchEntity.distance = PyFloat(12350)
    /\ SearchEntity.score = PyNone

\* a text without the blanks at its two ends
Trimmed(s) ==
    LET solid == {i \in 1..Len(s) : s[i] # " "}
    IN  IF solid = {} THEN <<>>
        ELSE SubSeq(s, CHOOSE i \in solid : \A j \in solid : i <= j,
                       CHOOSE i \in solid : \A j \in solid : i >= j)

Emit(acc, cur) == IF Trimmed(cur) = <<>> THEN acc ELSE Append(acc, Trimmed(cur))

\* the tokens of a text, reading it one character at a time
RECURSIVE ScanTokens(_, _, _)
ScanTokens(s, cur, acc) ==
    IF s = <<>> THEN Emit(acc, cur)
    ELSE IF Head(s) = "," THEN ScanTokens(Tail(s), <<>>, Emit(acc, cur))
    ELSE ScanTokens(Tail(s), Append(cur, Head(s)), acc)

ExpectedTokens(props, k) ==
    IF k \in DOMAIN props /\ props[k].t = "str"
    THEN ScanTokens(props[k].v, <<>>, <<>>)
    ELSE <<>>

RendersTokens(raw, e, k) ==
    /\ e[k].t = "list"
    /\ Len(e[k].v) = Len(ExpectedTokens(raw.properties, k))
    /\ \A i \in 1..Len(e[k].v) :
           LET tok == e[k].v[i]
           IN  /\ tok.t = "str"
               /\ tok.v = ExpectedTokens(raw.properties, k)[i]
               /\ tok.v # <<>>
               /\ tok.v[1] # " "
               /\ tok.v[Len(tok.v)] # " "
               /\ \A j \in 1..Len(tok.v) : tok.v[j] # ","

OnlyDelimited(raw) == DOMAIN raw.properties \subseteq {"topics", "languages"}

ScalarNames ==
    {"name", "full_name", "description", "url", "homepage", "language",
     "stars", "forks", "open_issues", "license", "has_issues", "has_wiki",
     "created_at", "updated_at"}

TypeOf(k) ==
    IF k \in {"stars", "forks", "open_issues"} THEN "int"
    ELSE IF k \in {"has_issues", "has_wiki"} THEN "bool"
    ELSE "str"

DefaultOf(k) ==
    IF k \in {"stars", "forks", "open_issues"} THEN [t |-> "int", v |-> 0]
    ELSE IF k \in {"has_issues", "has_wiki"} THEN [t |-> "bool", v |-> FALSE]
    ELSE [t |-> "str", v |-> <<>>]

\* every property the record carries holds a value of its type
Typed(raw) == \A k \in DOMAIN raw.properties : raw.properties[k].t = TypeOf(k)

DefaultsAbsent(raw, e) ==
    \A k \in ScalarNames \ DOMAIN raw.properties : e[k] = DefaultOf(k)

WellTyped(e) == \A k \in ScalarNames : e[k].t = TypeOf(k)

\* C19: on both paths a scalar field the record does not carry is rendered
\* with the default of its type ("" for the strings and license, 0 for
\* stars, forks and open_issues, false for has_issues and has_wiki), and a
\* record that carries any subset of the fields, each with a value of its
\* type, is rendered as a well-typed entity.
C19_AbsentScalarDefaults ==
    /\ SearchRecord =>
           /\ SearchRendered => DefaultsAbsent(SearchRaw, SearchEntity)
           /\ Typed(SearchRaw) => SearchRendered /\ WellTyped(SearchEntity)
    /\ BrowseRecord =>
           /\ BrowseRendered => DefaultsAbsent(BrowseRaw, BrowseEntity)
           /\ Typed(BrowseRaw) => BrowseRendered /\ WellTyped(BrowseEntity)

C19_Witness ==
    /\ SearchRecord
    /\ SearchRendered
    /\ DOMAIN SearchRaw.properties = {"forks", "has_wiki"}
    /\ SearchRaw.properties.forks = PyInt(5)
    /\ SearchEntity.forks = PyInt(5)
    /\ SearchEntity.name = PyStr(<<>>)
    /\ SearchEntity.license = PyStr(<<>>)
    /\ SearchEntity.stars = PyInt(0)
    /\ SearchEntity.has_issues = PyBool(FALSE)

\* C20: the two paths agree on every property bag: a record the browse
\* path can render is rendered by the search path too, with the same values
\* in the fields the two paths share, and a record rendered by the browse
\* path has the values the search path gives it.
C20_PathsAgree ==
    /\ (SearchRecord /\ ~FormatBrowseRaises(SearchRaw)) =>
           /\ SearchRendered
           /\ \A k \in PropertyNames :
                  SearchEntity[k] = Repository(FormatBrowseResult(SearchRaw))[k]
    /\ (BrowseRecord /\ BrowseRendered) =>
           \A k \in PropertyNames :
               BrowseEntity[k] = Repository(FormatSearchResult(BrowseRaw))[k]

(***************************************************************************)
(* The post-processing of the generated text.                              *)
(***************************************************************************)
Generated ==
    /\ req.kind = "search"
    /\ Len(rets) >= 1
    /\ rets[1].op = "generate"
    /\ ~rets[1].out.raised
    /\ rets[1].out.text # PyNone

\* how many tokens the leading marker of a trimmed text takes: the fence
\* with its python tag, else the fence alone, else nothing
LeadLen(t) ==
    IF Len(t) >= 2 /\ t[1] = "FENCE" /\ t[2] = "python" THEN 2
    ELSE IF Len(t) >= 1 /\ t[1] = "FENCE" THEN 1
    ELSE 0

TrailLen(r) == IF Len(r) >= 1 /\ r[Len(r)] = "FENCE" THEN 1 ELSE 0

Unfenced(t) ==
    LET r == SubSeq(t, LeadLen(t) + 1, Len(t))
    IN  Trimmed(SubSeq(r, 1, Len(r) - TrailLen(r)))

\* C21: the snippet handed to the sandbox is the trimmed response without
\* at most one leading fence marker (the marker with its python tag, else
\* the bare marker) and at most one trailing fence marker, trimmed again; a
\* response with no fence marker at either end is its trimmed text
\* unchanged; the snippet is always one contiguous piece of the response.
C21_FenceStripping ==
    Generated =>
        LET txt == rets[1].out.text.v
            t == Trimmed(txt)
        IN  /\ code = Unfenced(t)
            /\ calls[2].code = code
            /\ (LeadLen(t) = 0 /\ TrailLen(t) = 0) => code = t
            /\ \E i \in 1..(Len(txt) + 1), j \in 0..Len(txt) :
                   code = SubSeq(txt, i, j)
            /\ Len(t) - Len(code) >= LeadLen(t)

C21_Witness ==
    /\ Generated
    /\ rets[1].out.text.v = <<" ", "FENCE", "python", "x", "FENCE">>
    /\ code = <<"x">>
    /\ pc = "done"
    /\ resp.kind = "returned"

(***************************************************************************)
(* filters_applied of a successful /allrepos response against the          *)
(* predicate of its count query.                                           *)
(***************************************************************************)
AllReposSucceeded == BrowseSucceeded /\ req.kind = "allrepos"

\* the dictionary the response reports, empty when it reports null
Reported ==
    IF resp.body.filters_applied = PyNone THEN <<>>
    ELSE resp.body.filters_applied.v

OperandOf(flt, k) == Leaves(flt)[CHOOSE i \in AtomsFor(flt, k) : TRUE].val

KeysAgree(flt) ==
    /\ (resp.body.filters_applied = PyNone) <=> (flt = PyNone)
    /\ \A k \in FilterNames : (k \in DOMAIN Reported) <=> (AtomsFor(flt, k) # {})

\* C22 as the specification words it: a key is reported exactly when its
\* parameter contributed a comparison, with the operand of that comparison,
\* and null is reported exactly when the predicate is 'no filter'.
C22_Original ==
    AllReposSucceeded =>
        /\ KeysAgree(calls[1].filters)
        /\ \A k \in DOMAIN Reported :
               Reported[k] = OperandOf(calls[1].filters, k)

\* C22: in a successful /allrepos response a key is reported exactly when
\* its parameter contributed a comparison to the predicate of the count and
\* the fetch, and null is reported exactly when the predicate is 'no
\* filter'; the reported value is the operand of the comparison, except for
\* name_contains and description_contains, where the response reports the
\* text as given and the comparison holds '*' + lower-cased text + '*'.
C22_ReportedFilters ==
    AllReposSucceeded =>
        /\ KeysAgree(calls[1].filters)
        /\ \A i \in CallsOf("fetch") : calls[i].filters = calls[1].filters
        /\ \A k \in DOMAIN Reported :
               IF k \in {"name_contains", "description_contains"}
               THEN /\ Reported[k] = req.filters[k]
                    /\ OperandOf(calls[1].filters, k).v =
                           <<"*">> \o Lower(Reported[k].v) \o <<"*">>
               ELSE Reported[k] = OperandOf(calls[1].filters, k)

C22_Witness ==
    /\ AllReposSucceeded
    /\ Present(req.filters) = {"language", "name_contains"}
    /\ req.filters.language = PyStr(<<"A", "b">>)
    /\ req.filters.name_contains = PyStr(<<"A", "b">>)
    /\ Reported.language = PyStr(<<"a", "b">>)
    /\ Reported.name_contains = PyStr(<<"A", "b">>)
    /\ OperandOf(calls[1].filters, "name_contains") = PyStr(<<"*", "a", "b", "*">>)

BothAnswered ==
    /\ IsBrowse(req)
    /\ pc = "done"
    /\ Len(rets) = 2
    /\ ~BackendFailed

\* the index held as many matching records at the fetch as at the count
IndexStable == rets[1].out.total_count = matching

CountAnswered ==
    /\ IsBrowse(req)
    /\ Len(rets) >= 1
    /\ ~rets[1].out.raised

\* C23: a browse request whose count answered issues its fetch whatever the
\* page, and succeeds when the fetch answers too; if the index held the
\* same matching records at both calls, the response carries
\* min(per_page, max(0, total_items - offset)) items, and a page after the
\* last one carries no item, has_next = false and has_previous = true.
C23_ItemCount ==
    /\ CountAnswered => CallsOf("fetch") # {}
    /\ BothAnswered =>
        /\ BrowseSucceeded
        /\ IndexStable =>
               LET pg == resp.body.pagination
                   left == pg.total_items - (req.page - 1) * req.limit
               IN  /\ pg.total_items = matching
                   /\ Len(resp.body.data) =
                          (IF left <= 0 THEN 0
                           ELSE IF left < req.limit THEN left ELSE req.limit)
                   /\ req.page > pg.total_pages =>
                          /\ Len(resp.body.data) = 0
                          /\ ~pg.has_next
                          /\ pg.has_previous

C23_Witness ==
    /\ BothAnswered
    /\ IndexStable
    /\ matching = 3
    /\ req.limit = 2
    /\ req.page = 3
    /\ resp.body.success
    /\ resp.body.pagination.total_pages = 2
    /\ resp.body.data = <<>>
    /\ resp.body.pagination.has_previous

\* the index changed between the two calls: more items than total_items
C23_WitnessChanged ==
    /\ BothAnswered
    /\ ~IndexStable
    /\ resp.body.success
    /\ resp.body.pagination.total_items = 0
    /\ Len(resp.body.data) = 2

(***************************************************************************)
(* The results of a search response against the list of the sandbox.       *)
(***************************************************************************)
SearchAnswered ==
    /\ req.kind = "search"
    /\ pc = "done"
    /\ resp.kind = "returned"

\* the entities of the records the snippet left, in the order it left them
SandboxList ==
    IF Len(rets) = 2 /\ ~rets[2].out.raised /\ rets[2].out.slot.t = "query_return"
    THEN [i \in 1..Len(rets[2].out.slot.objects) |->
             Repository(FormatSearchResult(rets[2].out.slot.objects[i]))]
    ELSE <<>>

CountAndPrefix ==
    /\ resp.body.results_count = Len(resp.body.results)
    /\ ~resp.body.success =>
           resp.body.results = <<>> /\ resp.body.results_count = 0
    /\ resp.body.success =>
           /\ Len(resp.body.results) <= Len(SandboxList)
           /\ resp.body.results = SubSeq(SandboxList, 1, Len(resp.body.results))

\* C24 as the specification words it: every request has a limit between 1
\* and 50 (10 when the body gives none) and a successful response holds no
\* more results than that.
C24_Original ==
    SearchAnswered =>
        /\ CountAndPrefix
        /\ resp.body.success =>
               Len(resp.body.results) =
                   Min(Len(SandboxList),
                       IF req.limit = PyNone THEN 50 ELSE req.limit.v)

\* C24: in every search response results_count is the length of results;
\* on failure results is empty and results_count is 0; on success results
\* is the list of the sandbox in its order, cut to its first limit entries
\* when the request has a limit (1..50, 10 when the body gives none) and
\* whole when the body gives limit null.
C24_ResultsAndCount ==
    SearchAnswered =>
        /\ CountAndPrefix
        /\ (resp.body.success /\ req.limit # PyNone) =>
               /\ req.limit.v \in 1..50
               /\ Len(resp.body.results) = Min(Len(SandboxList), req.limit.v)
        /\ (resp.body.success /\ req.limit = PyNone) =>
               resp.body.results = SandboxList

C24_Witness ==
    /\ SearchAnswered
    /\ resp.body.success
    /\ req.limit = PyInt(10)
    /\ Len(SandboxList) = 51
    /\ resp.body.results_count = 10
    /\ Len(resp.body.results) = 10
    /\ resp.body.results[1].name = PyStr(<<"b">>)
    /\ resp.body.results[10].name = PyStr(<<"a">>)


====
